---- MODULE Spec2Model ----
(***************************************************************************)
(* Model of wager's bounded best-rational-approximation routine            *)
(* (src/rational_approximation.rs, duplicated in                           *)
(* src/math/rational_approximation.rs).                                    *)
(*                                                                         *)
(* An f64 is modelled as one of NaN, +/-infinity, or a signed finite value *)
(* whose magnitude is the exact mixed number  hi*2^31 + whole + num/den    *)
(* (0 <= num < den).  Floating-point arithmetic on finite values is        *)
(* modelled as exact rational arithmetic; i32 arithmetic is modelled with  *)
(* its width: a result outside [MIN_INT32, MAX_INT32] is an overflow.      *)
(*                                                                         *)
(* The odds layer that calls the routine (src/odd.rs, src/odd/*.rs,        *)
(* src/math.rs, src/fraction_simplification.rs, src/lib.rs) is modelled as *)
(* one call per behaviour: constructors, conversions and the comparison of *)
(* two odds, each returning Ok, Err or a panic.                            *)
(***************************************************************************)
EXTENDS Integers, Sequences, FiniteSets, TLC

\* ------------------------------------------------------------------ bounds
MaxWhole == 2
MaxFracDen == 7
MaxBound == 8

\* ------------------------------------------------------- program constants
MAX_INT32 == 2147483647
MIN_INT32 == (-2147483647) - 1
DEFAULT_MAX_TERMS == 47
\* DEFAULT_CONVERGENCE_TOLERANCE = 1e-9 = 1 / ToleranceInverse
ToleranceInverse == 1000000000
RATIONAL_APPROXIMATION_MAX_DENOMINATOR == 100

\* ------------------------------------------------------------ f64 values
Abs(x) == IF x < 0 THEN -x ELSE x

RECURSIVE Gcd(_, _)
Gcd(a, b) == IF b = 0 THEN a ELSE Gcd(b, a % b)

NaN == [kind |-> "nan", neg |-> FALSE, hi |-> 0, whole |-> 0, num |-> 0, den |-> 1]
Inf(neg) == [kind |-> "inf", neg |-> neg, hi |-> 0, whole |-> 0, num |-> 0, den |-> 1]
Fin(neg, hi, whole, num, den) ==
    [kind |-> "fin", neg |-> neg, hi |-> hi, whole |-> whole, num |-> num, den |-> den]

\* f64::abs
F64Abs(v) == [v EXCEPT !.neg = FALSE]
\* unary minus on f64
F64Neg(v) == IF v.kind = "nan" THEN v ELSE [v EXCEPT !.neg = ~v.neg]
\* f64::is_infinite negated, a plausible slip for is_finite: lets NaN through
IsFinite_notInfinite(v) == v.kind # "inf"

\* f64::is_finite
IsFinite(v) == v.kind = "fin"
IsZero(v) == v.kind = "fin" /\ v.hi = 0 /\ v.whole = 0 /\ v.num = 0
\* value < 0.0  (false for NaN and for -0.0)
LtZero(v) == v.kind # "nan" /\ v.neg /\ ~IsZero(v)

\* value > f64::MAX - 0.5 : f64::MAX - 0.5 rounds to f64::MAX, so only
\* +infinity compares greater.
GtSaturateHigh(v) == v.kind = "inf" /\ ~v.neg
\* value < f64::MIN + 0.5 : only -infinity compares less.
LtSaturateLow(v) == v.kind = "inf" /\ v.neg

\* value.floor() as i32 for a non-negative finite value: the cast saturates.
FloorAsI32(v) == IF v.hi > 0 THEN MAX_INT32 ELSE v.whole

\* reciprocal_residual - (continued_fraction_term as f64), as a fraction
\* <<numerator, denominator>>.  The term is FloorAsI32 of the residual.
NextResidual(rr, t) ==
    IF rr.hi > 0
    THEN \* hi*2^31 + whole + num/den - (2^31 - 1)
         <<(rr.whole + 1) * rr.den + rr.num, rr.den>>
    ELSE <<(rr.whole - t) * rr.den + rr.num, rr.den>>

\* next_residual.abs() <= DEFAULT_CONVERGENCE_TOLERANCE
WithinTolerance(r) ==
    r[1] = 0 \/ (r[2] \div Abs(r[1])) >= ToleranceInverse

\* 1.0 / next_residual for a positive fraction, as a mixed number
Reciprocal(r) == Fin(FALSE, 0, r[2] \div r[1], r[2] % r[1], r[1])

\* ------------------------------------------------------------ i32 arithmetic
InI32(x) == MIN_INT32 <= x /\ x <= MAX_INT32

\* a * b stays within i32 (decided without forming the product)
MulFits(a, b) == a = 0 \/ b = 0 \/ Abs(a) <= MAX_INT32 \div Abs(b)
\* a + b stays within i32
AddFits(a, b) == IF b >= 0 THEN a <= MAX_INT32 - b ELSE a >= MIN_INT32 - b

\* i32 division truncates toward zero
TruncDiv(a, b) == IF (a >= 0) = (b > 0) THEN Abs(a) \div Abs(b) ELSE -(Abs(a) \div Abs(b))

\* term * x + y overflows i32
TermOverflows(term, x, y) == ~MulFits(term, x) \/ ~AddFits(term * x, y)

\* append_continued_fraction_term overflows in one of its two components
AppendOverflows(fraction, prev, term) ==
    TermOverflows(term, fraction[1], prev[1]) \/ TermOverflows(term, fraction[2], prev[2])

\* the recurrence with the parts of the previous fraction exchanged
append_prev_swapped(fraction, prev, term) ==
    <<term * fraction[1] + prev[2], term * fraction[2] + prev[1]>>

\* the recurrence with the current fraction where the previous belongs
append_addend_slip(fraction, prev, term) ==
    <<term * fraction[1] + fraction[1], term * fraction[2] + fraction[2]>>

append_continued_fraction_term(fraction, prev, term) ==
    <<term * fraction[1] + prev[1], term * fraction[2] + prev[2]>>

\* ---------------------------------------------------- semiconvergent test
\* value - fraction, as a numerator over the denominator value.den * fraction[2]
\* (value finite and non-negative, fraction[2] > 0; a value of 2^31 or more
\* is outside what this operator can compute and stops the evaluation)
DiffNumerator(value, fraction) ==
    (value.hi * MAX_INT32 + value.hi + value.whole - (fraction[1] \div fraction[2]))
            * value.den * fraction[2]
        + value.num * fraction[2] - (fraction[1] % fraction[2]) * value.den

\* value - fraction_to_double(semiconvergent).abs()
\*     < (value - fraction_to_double(convergent)).abs()
\* The left side is NOT an absolute difference: .abs() binds to the
\* reconstruction of the semiconvergent only.  A semiconvergent with
\* denominator 0 reconstructs to +infinity (numerator > 0) or NaN (numerator 0).
SemiconvergentPreferred(value, semiconvergent, convergent) ==
    IF semiconvergent[2] = 0
    THEN semiconvergent[1] # 0
    ELSE LET semiAbs == <<Abs(semiconvergent[1]), Abs(semiconvergent[2])>>
         IN DiffNumerator(value, semiAbs) * convergent[2]
              < Abs(DiffNumerator(value, convergent)) * semiAbs[2]

\* --------------------------------------------------------- call frame
Done(f, numerator, denominator) ==
    [f EXCEPT !.pc = "done", !.result = <<numerator, denominator>>]

\* the fraction returned without its sign
Signed_dropped(sign, fraction) == <<fraction[1], fraction[2]>>

\* (sign * fraction.0, fraction.1): a plausible slip applies the sign to both
Signed_both(sign, fraction) == <<sign * fraction[1], sign * fraction[2]>>

\* lines 33 and 78: (sign * fraction.0, fraction.1)
Signed(sign, fraction) == <<sign * fraction[1], fraction[2]>>

DoneWith(f, fraction) == Done(f, Signed(f.sign, fraction)[1], Signed(f.sign, fraction)[2])

\* max_denominator < 0, a plausible slip for <= 0
InvalidBound_strict(max_denominator) == max_denominator < 0

\* max_denominator <= 0
InvalidBound(max_denominator) == max_denominator <= 0

\* lines 6-28: the edge cases and the initial state of the expansion
Enter(value, max_denominator) ==
    LET f0 == [pc |-> "enter", value |-> value, max_denominator |-> max_denominator,
               sign |-> 1, reciprocal_residual |-> NaN,
               continued_fraction_term |-> 0,
               prev_convergent |-> <<1, 0>>, convergent |-> <<0, 1>>,
               n |-> 0, term |-> 2, result |-> <<0, 0>>]
        sign == IF LtZero(value) THEN -1 ELSE 1
        absv == F64Abs(value)
    IN IF InvalidBound(max_denominator) THEN Done(f0, 0, 0)
       ELSE IF GtSaturateHigh(value) THEN Done(f0, MAX_INT32, 1)
       ELSE IF LtSaturateLow(value) THEN Done(f0, MIN_INT32, 1)
       ELSE IF ~IsFinite(absv) THEN Done([f0 EXCEPT !.sign = sign, !.value = absv], 0, 0)
       ELSE [f0 EXCEPT !.pc = "loop", !.sign = sign, !.value = absv,
                       !.reciprocal_residual = absv,
                       !.continued_fraction_term = FloorAsI32(absv),
                       !.convergent = <<FloorAsI32(absv), 1>>]

\* the multiplier without the clamp that protects the numerator
MaxMultiplier_unclamped(max_denominator, prev_convergent, convergent) ==
    TruncDiv(max_denominator - prev_convergent[2], convergent[2])

\* the multiplier computed from the current denominator where the previous belongs
MaxMultiplier_swapped(max_denominator, prev_convergent, convergent) ==
    LET byDenominator == TruncDiv(max_denominator - convergent[2], convergent[2])
        upper_bound == TruncDiv(MAX_INT32 - prev_convergent[1], convergent[1])
    IN IF convergent[1] > 0 /\ byDenominator > upper_bound
       THEN upper_bound ELSE byDenominator

\* lines 39-45: the largest multiplier that keeps the next convergent in bounds
MaxMultiplier(max_denominator, prev_convergent, convergent) ==
    LET byDenominator == TruncDiv(max_denominator - prev_convergent[2], convergent[2])
        upper_bound == TruncDiv(MAX_INT32 - prev_convergent[1], convergent[1])
    IN IF convergent[1] > 0 /\ byDenominator > upper_bound
       THEN upper_bound ELSE byDenominator

\* && where || belongs: the bound alone no longer stops the loop
LoopBreaks_both(term, continued_fraction_term, n) ==
    term >= DEFAULT_MAX_TERMS /\ continued_fraction_term >= n

\* line 47: the loop's break condition
LoopBreaks(term, continued_fraction_term, n) ==
    term >= DEFAULT_MAX_TERMS \/ continued_fraction_term >= n

\* lines 30-58: one iteration of the expansion loop
LoopBody(f) ==
    LET next_residual == NextResidual(f.reciprocal_residual, f.continued_fraction_term)
    IN IF WithinTolerance(next_residual)
       THEN DoneWith(f, f.convergent)
       ELSE LET rr == Reciprocal(next_residual)
                cft == FloorAsI32(rr)
                n == MaxMultiplier(f.max_denominator, f.prev_convergent, f.convergent)
                g == [f EXCEPT !.reciprocal_residual = rr,
                               !.continued_fraction_term = cft, !.n = n]
            IN IF f.convergent[2] = 0
               THEN \* line 39 divides by convergent.1: a zero divisor panics
                    [f EXCEPT !.pc = "panic", !.reciprocal_residual = rr,
                              !.continued_fraction_term = cft]
               ELSE IF LoopBreaks(f.term, cft, n) THEN [g EXCEPT !.pc = "select"]
               ELSE IF AppendOverflows(f.convergent, f.prev_convergent, cft)
               THEN [g EXCEPT !.pc = "overflow"]
               ELSE [g EXCEPT !.prev_convergent = f.convergent,
                              !.convergent = append_continued_fraction_term(
                                                 f.convergent, f.prev_convergent, cft),
                              !.term = f.term + 1]

\* lines 60-78: the semiconvergent selector
SelectBest(f) ==
    LET lower_bound == TruncDiv(f.continued_fraction_term, 2)
    IN IF f.n >= lower_bound
       THEN LET n == IF f.n > f.continued_fraction_term
                     THEN f.continued_fraction_term ELSE f.n
            IN IF AppendOverflows(f.convergent, f.prev_convergent, n)
               THEN [f EXCEPT !.pc = "overflow", !.n = n]
               ELSE LET semiconvergent == append_continued_fraction_term(
                                              f.convergent, f.prev_convergent, n)
                        best == IF n > lower_bound
                                   \/ SemiconvergentPreferred(f.value, semiconvergent,
                                                              f.convergent)
                                THEN semiconvergent ELSE f.convergent
                    IN DoneWith([f EXCEPT !.n = n], best)
       ELSE DoneWith(f, f.convergent)

StepFrame(f) ==
    IF f.pc = "loop" THEN LoopBody(f)
    ELSE IF f.pc = "select" THEN SelectBest(f)
    ELSE f

RECURSIVE RunFrame(_)
RunFrame(f) == IF f.pc \in {"loop", "select"} THEN RunFrame(StepFrame(f)) ELSE f

\* the whole call, as a function of its arguments
rational_approximation(value, max_denominator) ==
    RunFrame(Enter(value, max_denominator))

\* fraction_to_double, lines 92-94: (fraction.0 as f64) / (fraction.1 as f64)
fraction_to_double(fraction) ==
    IF fraction[2] = 0
    THEN IF fraction[1] = 0 THEN NaN ELSE Inf(fraction[1] < 0)
    ELSE Fin((fraction[1] < 0) # (fraction[2] < 0), 0,
             Abs(fraction[1]) \div Abs(fraction[2]),
             Abs(fraction[1]) % Abs(fraction[2]), Abs(fraction[2]))

\* ------------------------------------------------------------ odds layer
\* Result<T, OddError>, and the abort of the call by a panic
Ok(v) == [tag |-> "Ok", val |-> v]
Err == [tag |-> "Err", val |-> <<0, 0>>]
Panicked == [tag |-> "Panic", val |-> <<0, 0>>]

\* math.rs: gcd
gcd(a, b) == Gcd(a, b)

\* simplify_fraction that forgets to reduce the denominator
simplify_fraction_half(numerator, denominator) ==
    IF gcd(numerator, denominator) = 0 THEN Panicked
    ELSE Ok(<<numerator \div gcd(numerator, denominator), denominator>>)

\* math.rs: simplify_fraction.  u32 division by a zero gcd panics.
simplify_fraction(numerator, denominator) ==
    IF gcd(numerator, denominator) = 0 THEN Panicked
    ELSE Ok(<<numerator \div gcd(numerator, denominator),
              denominator \div gcd(numerator, denominator)>>)

\* fraction_simplification.rs: simplify.  A zero part fails the NonZeroU32
\* conversion before any division.
simplify(numerator, denominator) ==
    IF numerator = 0 \/ denominator = 0 THEN Err
    ELSE Ok(<<numerator \div gcd(numerator, denominator),
              denominator \div gcd(numerator, denominator)>>)

\* the two try_into::<NonZeroU32>() of Fractional::new
NonZeroPair(pair) == IF pair[1] = 0 \/ pair[2] = 0 THEN Err ELSE Ok(pair)

\* odd/fractional.rs: Fractional::new
FractionalNew(numerator, denominator) ==
    LET simplified == simplify_fraction(numerator, denominator)
    IN IF simplified.tag = "Panic" THEN Panicked ELSE NonZeroPair(simplified.val)

\* lib.rs: Fractional::new, which simplifies with fraction_simplification::simplify
LibFractionalNew(numerator, denominator) ==
    LET simplified == simplify(numerator, denominator)
    IN IF simplified.tag = "Err" THEN Err ELSE NonZeroPair(simplified.val)

\* value < 1.0
LtOne(v) ==
    /\ v.kind # "nan"
    /\ v.neg \/ (v.kind = "fin" /\ v.hi = 0 /\ v.whole = 0)

\* Decimal::new
DecimalNew(v) == IF LtOne(v) THEN Err ELSE Ok(v)

\* value - 1.0
F64SubOne(v) ==
    IF v.kind # "fin" THEN v
    ELSE IF v.neg /\ ~IsZero(v) THEN [v EXCEPT !.whole = v.whole + 1]
    ELSE IF v.whole >= 1 THEN [v EXCEPT !.neg = FALSE, !.whole = v.whole - 1]
    ELSE IF v.hi > 0 THEN [v EXCEPT !.neg = FALSE, !.hi = v.hi - 1, !.whole = MAX_INT32]
    ELSE IF v.num = 0 THEN Fin(TRUE, 0, 1, 0, 1)
    ELSE Fin(TRUE, 0, 0, v.den - v.num, v.den)

\* i32::unsigned_abs (i32::MIN, whose magnitude is 2^31, is returned for no Decimal)
UnsignedAbs(x) == Abs(x)

\* math/rational_approximation.rs: rational_approximation(value), the bound fixed
\* at DEFAULT_MAX_DENOMINATOR
MathRationalApproximation(v) ==
    rational_approximation(v, RATIONAL_APPROXIMATION_MAX_DENOMINATOR)

\* the numerator <= 0 || denominator <= 0 test of lib.rs
RejectedPair(pair) == pair[1] <= 0 \/ pair[2] <= 0

\* odd/fractional.rs: impl TryFrom<Decimal> for Fractional
FractionalFromDecimal(decimal) ==
    LET approximation == MathRationalApproximation(F64SubOne(decimal)).result
    IN FractionalNew(UnsignedAbs(approximation[1]), UnsignedAbs(approximation[2]))

\* lib.rs: impl TryFrom<Decimal> for Fractional
LibFractionalFromDecimal(decimal) ==
    LET approximation == rational_approximation(
                             F64SubOne(decimal),
                             RATIONAL_APPROXIMATION_MAX_DENOMINATOR).result
    IN IF RejectedPair(approximation) THEN Err
       ELSE LibFractionalNew(UnsignedAbs(approximation[1]), UnsignedAbs(approximation[2]))

\* an i64 as sign and magnitude hi * 2^32 + lo, or the most negative i64, whose
\* magnitude 2^63 no other i64 has
I64(neg, hi, lo) == [kind |-> "num", neg |-> neg, hi |-> hi, lo |-> lo]
I64Min == [kind |-> "min", neg |-> TRUE, hi |-> 0, lo |-> 0]

\* value.abs() < 100 for an i64 other than i64::MIN
AbsBelow100(m) == m.hi = 0 /\ m.lo < 100

\* Moneyline::new: the outcomes the builds can produce.  i64::MIN.abs()
\* overflows: a panic with overflow checks, and i64::MIN itself (which is below
\* 100) without them.
MoneylineNew(m) ==
    IF m.kind = "min" THEN {Panicked, Err}
    ELSE IF AbsBelow100(m) THEN {Err}
    ELSE {Ok(m)}

\* value > 0 for an i64
I64Positive(m) == m.kind = "num" /\ ~m.neg /\ (m.hi > 0 \/ m.lo > 0)

\* `as u32` of an i64 or of its unsigned_abs(): the low 32 bits
AsU32(m) == IF m.kind = "min" THEN 0 ELSE m.lo

\* odd/fractional.rs: impl TryFrom<Moneyline> for Fractional
FractionalFromMoneyline(m) ==
    IF I64Positive(m) THEN FractionalNew(AsU32(m), 100)
    ELSE FractionalNew(100, AsU32(m))

\* lib.rs: impl TryFrom<Moneyline> for Fractional
LibFractionalFromMoneyline(m) ==
    IF I64Positive(m) THEN LibFractionalNew(AsU32(m), 100)
    ELSE LibFractionalNew(100, AsU32(m))

\* std::cmp::Ordering of two integers
IntCmp(x, y) == IF x < y THEN "Less" ELSE IF x = y THEN "Equal" ELSE "Greater"

\* math::lcm, the least common multiple Fractional's comparisons call
lcm(a, b) == (a \div gcd(a, b)) * b

\* odd/fractional.rs: impl Ord for Fractional, on the stored pairs
FractionalCmp(a, b) ==
    LET lcd == lcm(a[2], b[2])
        numerator_a == a[1] * (lcd \div a[2])
        numerator_b == b[1] * (lcd \div b[2])
    IN IntCmp(numerator_a, numerator_b)

\* f64::total_cmp on the values a Decimal holds: finite values from 1.0 up,
\* then +inf, then NaN
TotalCmp(a, b) ==
    LET rank(v) == IF v.kind = "fin" THEN 0 ELSE IF v.kind = "inf" THEN 1 ELSE 2
    IN IF rank(a) # rank(b) \/ a.kind # "fin" THEN IntCmp(rank(a), rank(b))
       ELSE IF a.hi # b.hi THEN IntCmp(a.hi, b.hi)
       ELSE IF a.whole # b.whole THEN IntCmp(a.whole, b.whole)
       ELSE IntCmp(a.num * b.den, b.num * a.den)

\* odd/decimal.rs: impl Ord for Decimal
DecimalCmp(a, b) == TotalCmp(a, b)

\* odd/moneyline.rs: the derived Ord of Moneyline compares the raw i64 values
\* (here: values of fewer than 32 bits)
I64Value(m) == IF m.neg THEN -m.lo ELSE m.lo
MoneylineCmp(a, b) == IntCmp(I64Value(a), I64Value(b))

\* odd/decimal.rs: impl TryFrom<Fractional> for Decimal: 1.0 + numerator / denominator
DecimalFromFractional(f) ==
    DecimalNew(Fin(FALSE, 0, 1 + (f[1] \div f[2]), f[1] % f[2], f[2]))

\* odd/decimal.rs: impl TryFrom<Moneyline> for Decimal
DecimalFromMoneyline(m) ==
    IF I64Positive(m)
    THEN DecimalNew(Fin(FALSE, 0, 1 + (m.lo \div 100), m.lo % 100, 100))
    ELSE DecimalNew(Fin(FALSE, 0, 1 + (100 \div m.lo), 100 % m.lo, m.lo))

\* an AnyOdd: the representation and the value it wraps (the fields of the
\* other two representations are unused)
AnyOdd(type, fractional, decimal, moneyline) ==
    [type |-> type, fractional |-> fractional, decimal |-> decimal, moneyline |-> moneyline]
AnyOddFractional(f) == AnyOdd("Fractional", f, NaN, I64(FALSE, 0, 0))
AnyOddDecimal(d) == AnyOdd("Decimal", <<0, 0>>, d, I64(FALSE, 0, 0))
AnyOddMoneyline(m) == AnyOdd("Moneyline", <<0, 0>>, NaN, m)

\* odd.rs: impl Ord for AnyOdd
AnyOddCmp(a, b) ==
    LET viaDecimal(x, y, otherwise) ==
            IF x.tag = "Ok" /\ y.tag = "Ok" THEN DecimalCmp(x.val, y.val) ELSE otherwise
        viaFractional(x, y, otherwise) ==
            IF x.tag = "Ok" /\ y.tag = "Ok" THEN FractionalCmp(x.val, y.val) ELSE otherwise
    IN CASE a.type = "Decimal" /\ b.type = "Decimal" -> DecimalCmp(a.decimal, b.decimal)
         [] a.type = "Decimal" /\ b.type = "Fractional" ->
                viaDecimal(Ok(a.decimal), DecimalFromFractional(b.fractional), "Greater")
         [] a.type = "Decimal" /\ b.type = "Moneyline" ->
                viaDecimal(Ok(a.decimal), DecimalFromMoneyline(b.moneyline), "Greater")
         [] a.type = "Fractional" /\ b.type = "Fractional" -> FractionalCmp(a.fractional, b.fractional)
         [] a.type = "Fractional" /\ b.type = "Decimal" ->
                viaDecimal(DecimalFromFractional(a.fractional), Ok(b.decimal), "Less")
         [] a.type = "Fractional" /\ b.type = "Moneyline" ->
                viaFractional(Ok(a.fractional), FractionalFromMoneyline(b.moneyline), "Greater")
         [] a.type = "Moneyline" /\ b.type = "Moneyline" -> MoneylineCmp(a.moneyline, b.moneyline)
         [] a.type = "Moneyline" /\ b.type = "Decimal" ->
                viaDecimal(DecimalFromMoneyline(a.moneyline), Ok(b.decimal), "Less")
         [] a.type = "Moneyline" /\ b.type = "Fractional" ->
                viaFractional(FractionalFromMoneyline(a.moneyline), Ok(b.fractional), "Less")

\* f64 ==: NaN equals nothing, the two zeros are equal
F64Eq(a, b) ==
    /\ a.kind # "nan" /\ b.kind # "nan" /\ a.kind = b.kind
    /\ IF a.kind = "inf" THEN a.neg = b.neg
       ELSE /\ a.hi = b.hi /\ a.whole = b.whole /\ a.num * b.den = b.num * a.den
            /\ a.neg = b.neg \/ (IsZero(a) /\ IsZero(b))

\* odd/decimal.rs: the derived PartialEq of Decimal compares the f64 values
DecimalEq(a, b) == F64Eq(a, b)

\* odd/fractional.rs: impl PartialEq for Fractional, on the stored pairs
FractionalEq(a, b) ==
    LET lcd == lcm(a[2], b[2])
        numerator_a == a[1] * (lcd \div a[2])
        numerator_b == b[1] * (lcd \div b[2])
    IN numerator_a = numerator_b

\* odd/moneyline.rs: the derived PartialEq of Moneyline compares the raw i64
\* values
MoneylineEq(a, b) ==
    a.kind = b.kind /\ a.hi = b.hi /\ a.lo = b.lo
        /\ (a.neg = b.neg \/ (a.hi = 0 /\ a.lo = 0))

\* odd.rs: impl PartialEq for AnyOdd
AnyOddEq(a, b) ==
    LET viaDecimal(x, y) == x.tag = "Ok" /\ y.tag = "Ok" /\ DecimalEq(x.val, y.val)
        viaFractional(x, y) == x.tag = "Ok" /\ y.tag = "Ok" /\ FractionalEq(x.val, y.val)
    IN CASE a.type = "Decimal" /\ b.type = "Decimal" -> DecimalEq(a.decimal, b.decimal)
         [] a.type = "Decimal" /\ b.type = "Fractional" ->
                viaDecimal(Ok(a.decimal), DecimalFromFractional(b.fractional))
         [] a.type = "Decimal" /\ b.type = "Moneyline" ->
                viaDecimal(Ok(a.decimal), DecimalFromMoneyline(b.moneyline))
         [] a.type = "Fractional" /\ b.type = "Fractional" ->
                FractionalEq(a.fractional, b.fractional)
         [] a.type = "Fractional" /\ b.type = "Decimal" ->
                viaDecimal(DecimalFromFractional(a.fractional), Ok(b.decimal))
         [] a.type = "Fractional" /\ b.type = "Moneyline" ->
                viaFractional(Ok(a.fractional), FractionalFromMoneyline(b.moneyline))
         [] a.type = "Moneyline" /\ b.type = "Moneyline" ->
                MoneylineEq(a.moneyline, b.moneyline)
         [] a.type = "Moneyline" /\ b.type = "Decimal" ->
                viaDecimal(DecimalFromMoneyline(a.moneyline), Ok(b.decimal))
         [] a.type = "Moneyline" /\ b.type = "Fractional" ->
                viaFractional(FractionalFromMoneyline(a.moneyline), Ok(b.fractional))

\* Odd::payout for a stake of 1.0, as the fraction <<p, q>> = p / q
\* (Fractional: 1 + n/d; Decimal: value; Moneyline: 1 + m/100 or 1 + 100/|m|)
Payout(a) ==
    CASE a.type = "Fractional" -> <<a.fractional[2] + a.fractional[1], a.fractional[2]>>
      [] a.type = "Decimal" -> <<a.decimal.whole * a.decimal.den + a.decimal.num, a.decimal.den>>
      [] a.type = "Moneyline" ->
            IF I64Positive(a.moneyline) THEN <<100 + a.moneyline.lo, 100>>
            ELSE <<a.moneyline.lo + 100, a.moneyline.lo>>

\* ------------------------------------------------------------------ inputs
\* finite values  +/-(whole + num/den)  in lowest terms
SmallValues ==
    { Fin(neg, 0, whole, num, den) :
        neg \in BOOLEAN, whole \in 0..MaxWhole,
        <<num, den>> \in { nd \in (0..MaxFracDen) \X (1..MaxFracDen) :
                             nd[1] < nd[2] /\ Gcd(nd[1], nd[2]) = 1 } }

\* the literal values of test_rational_approximation that the small values lack
TestValues ==
    { Fin(FALSE, 0, 0, 1, 8), Fin(FALSE, 0, 0, 1, 9), Fin(FALSE, 0, 0, 1, 10),
      Fin(FALSE, 0, 0, 1, 89), Fin(FALSE, 0, 0, 47, 89) }

\* values at the edges: around the i32 range, and around the tolerance
EdgeValues ==
    { Fin(neg, hw[1], hw[2], nd[1], nd[2]) :
        neg \in BOOLEAN,
        hw \in { <<1, 0>>, <<1, 1>>, <<0, MAX_INT32>>, <<0, MAX_INT32 - 1>> },
        nd \in { <<0, 1>>, <<3, 5>>, <<1, 2>> } }
    \cup { Fin(neg, 0, 0, num, 2 * ToleranceInverse) : neg \in BOOLEAN, num \in {1, 3} }

\* the value with the longest expansion an i32 denominator allows: the ratio of
\* the consecutive Fibonacci numbers F(45) / F(46), all of whose terms are 1
LongValues == { Fin(neg, 0, 0, 1134903170, 1836311903) : neg \in BOOLEAN }

Values == SmallValues \cup TestValues \cup EdgeValues \cup LongValues
              \cup {NaN, Inf(FALSE), Inf(TRUE)}

\* u32 arguments of Fractional::new: small ones and those of tests::valid
U32Samples == (0..MaxBound) \cup {56, 100, 124}

\* i64 arguments of Moneyline::new: around the threshold of 100, beyond 32 bits,
\* and the most negative i64
I64Samples ==
    { I64(neg, 0, lo) : neg \in BOOLEAN,
                        lo \in (0..MaxBound) \cup {99, 100, 101, 128, 150, 200, 800, 1200} }
    \cup { I64(neg, 1, lo) : neg \in BOOLEAN, lo \in {0, 50, 200} }
    \cup { I64Min }

\* the Decimal odds: the values Decimal::new accepts
DecimalSamples == { v \in Values : DecimalNew(v).tag = "Ok" }

\* the Moneyline odds: the values Moneyline::new accepts
MoneylineSamples == { m \in I64Samples : Ok(m) \in MoneylineNew(m) }

\* the odds that are compared: fractions of small parts, the small finite
\* decimals, and the moneylines of tests::sort and around +-100
OddSamples ==
    { AnyOddFractional(FractionalNew(nd[1], nd[2]).val) :
        nd \in { p \in (1..MaxWhole + 1) \X (1..MaxWhole + 1) : Gcd(p[1], p[2]) = 1 } }
    \cup { AnyOddDecimal(v) :
             v \in { w \in DecimalSamples : w.kind = "fin" /\ w.hi = 0 /\ w.whole <= MaxWhole
                                             /\ w.den <= 4 } }
    \cup { AnyOddMoneyline(m) :
             m \in { k \in MoneylineSamples : k.hi = 0 } }

\* the odds that are tested for equality: odds paying 1.5, 2.0 and 3.0 in each
\* representation, and the Decimal holding NaN, which Decimal::new accepts
EqSamples ==
    { AnyOddFractional(f) : f \in {<<1, 2>>, <<1, 1>>, <<2, 1>>} }
    \cup { AnyOddDecimal(v) : v \in {Fin(FALSE, 0, 1, 1, 2), Fin(FALSE, 0, 2, 0, 1),
                                     Fin(FALSE, 0, 3, 0, 1), NaN} }
    \cup { AnyOddMoneyline(I64(neg, 0, lo)) : neg \in BOOLEAN, lo \in {100, 200} }

Bounds == (-1..MaxBound) \cup {RATIONAL_APPROXIMATION_MAX_DENOMINATOR, MAX_INT32}

\* ------------------------------------------------------------ state machine
VARIABLES value, max_denominator, pc, sign, reciprocal_residual,
          continued_fraction_term, prev_convergent, convergent, n, term, result,
          odd

vars == <<value, max_denominator, pc, sign, reciprocal_residual,
          continued_fraction_term, prev_convergent, convergent, n, term, result,
          odd>>

\* the variables of the approximation call
approximation_vars ==
    <<value, max_denominator, pc, sign, reciprocal_residual,
      continued_fraction_term, prev_convergent, convergent, n, term, result>>

\* the call frame the variables hold
Frame ==
    [pc |-> pc, value |-> value, max_denominator |-> max_denominator, sign |-> sign,
     reciprocal_residual |-> reciprocal_residual,
     continued_fraction_term |-> continued_fraction_term,
     prev_convergent |-> prev_convergent, convergent |-> convergent,
     n |-> n, term |-> term, result |-> result]

SetFrame(f) ==
    /\ pc' = f.pc
    /\ sign' = f.sign
    /\ reciprocal_residual' = f.reciprocal_residual
    /\ continued_fraction_term' = f.continued_fraction_term
    /\ prev_convergent' = f.prev_convergent
    /\ convergent' = f.convergent
    /\ n' = f.n
    /\ term' = f.term
    /\ result' = f.result
    /\ UNCHANGED <<value, max_denominator, odd>>

\* no odds-layer call has been made
NoCall == [op |-> "none", arg |-> <<0, 0>>, approximation |-> <<0, 0>>, out |-> Err]

Init ==
    /\ value \in Values
    /\ max_denominator \in Bounds
    /\ odd = NoCall
    /\ pc = "start"
    /\ sign = 1
    /\ reciprocal_residual = NaN
    /\ continued_fraction_term = 0
    /\ prev_convergent = <<1, 0>>
    /\ convergent = <<0, 1>>
    /\ n = 0
    /\ term = 2
    /\ result = <<0, 0>>

\* the call: edge cases and loop set-up.  The frame keeps |value| in .value;
\* the variable value keeps the argument.
Call ==
    /\ pc = "start"
    /\ SetFrame(Enter(value, max_denominator))

\* one iteration of `for term in 2..`
Iterate ==
    /\ pc = "loop"
    /\ SetFrame([LoopBody([Frame EXCEPT !.value = F64Abs(value)]) EXCEPT !.value = value])

\* the code after the loop
Select ==
    /\ pc = "select"
    /\ SetFrame([SelectBest([Frame EXCEPT !.value = F64Abs(value)]) EXCEPT !.value = value])

Next == Call \/ Iterate \/ Select

Spec == Init /\ [][Next]_vars

\* a call that has started keeps running: no step of it waits on anything
FairSpec == Spec /\ WF_vars(Next)

\* ------------------------------------------------ odds layer state machine
\* one call of the odds layer; odd records the operation, its argument, the
\* pair the approximation gave it (when it asks for one) and its outcome
OddInit ==
    /\ value = NaN
    /\ max_denominator = RATIONAL_APPROXIMATION_MAX_DENOMINATOR
    /\ odd = NoCall
    /\ pc = "start"
    /\ sign = 1
    /\ reciprocal_residual = NaN
    /\ continued_fraction_term = 0
    /\ prev_convergent = <<1, 0>>
    /\ convergent = <<0, 1>>
    /\ n = 0
    /\ term = 2
    /\ result = <<0, 0>>

Record(op, arg, approximation, out) ==
    /\ odd.op = "none"
    /\ odd' = [op |-> op, arg |-> arg, approximation |-> approximation, out |-> out]
    /\ UNCHANGED approximation_vars

\* odd/fractional.rs: Fractional::new(numerator, denominator)
NewFractional ==
    \E numerator \in U32Samples, denominator \in U32Samples :
        Record("Fractional::new", <<numerator, denominator>>, <<0, 0>>,
               FractionalNew(numerator, denominator))

\* lib.rs: Fractional::new(numerator, denominator)
LibNewFractional ==
    \E numerator \in U32Samples, denominator \in U32Samples :
        Record("lib::Fractional::new", <<numerator, denominator>>, <<0, 0>>,
               LibFractionalNew(numerator, denominator))

\* odd/fractional.rs: Fractional::try_from(decimal)
ConvertDecimal ==
    \E decimal \in DecimalSamples :
        Record("Fractional::try_from(Decimal)", decimal,
               MathRationalApproximation(F64SubOne(decimal)).result,
               FractionalFromDecimal(decimal))

\* lib.rs: Fractional::try_from(decimal)
LibConvertDecimal ==
    \E decimal \in DecimalSamples :
        Record("lib::Fractional::try_from(Decimal)", decimal,
               MathRationalApproximation(F64SubOne(decimal)).result,
               LibFractionalFromDecimal(decimal))

\* odd/fractional.rs: Fractional::try_from(moneyline)
ConvertMoneyline ==
    \E moneyline \in MoneylineSamples :
        Record("Fractional::try_from(Moneyline)", moneyline, <<0, 0>>,
               FractionalFromMoneyline(moneyline))

\* lib.rs: Fractional::try_from(moneyline)
LibConvertMoneyline ==
    \E moneyline \in MoneylineSamples :
        Record("lib::Fractional::try_from(Moneyline)", moneyline, <<0, 0>>,
               LibFractionalFromMoneyline(moneyline))

\* odd/moneyline.rs: Moneyline::new(value)
NewMoneyline ==
    \E m \in I64Samples : \E out \in MoneylineNew(m) :
        Record("Moneyline::new", m, <<0, 0>>, out)

\* odd.rs: a.cmp(b) on two odds, as sorting a mixed list calls it
Compare ==
    \E a \in OddSamples, b \in OddSamples :
        Record("AnyOdd::cmp", <<a, b>>, <<0, 0>>, Ok(AnyOddCmp(a, b)))

\* odd.rs: the == tests a caller makes among three odds a, b, c
Equate ==
    \E a \in EqSamples, b \in EqSamples, c \in EqSamples :
        Record("AnyOdd::eq", <<a, b, c>>, <<0, 0>>,
               Ok([aa |-> AnyOddEq(a, a), ab |-> AnyOddEq(a, b), ba |-> AnyOddEq(b, a),
                   bc |-> AnyOddEq(b, c), ac |-> AnyOddEq(a, c)]))

OddNext ==
    \/ NewFractional \/ LibNewFractional
    \/ ConvertDecimal \/ LibConvertDecimal
    \/ ConvertMoneyline \/ LibConvertMoneyline
    \/ NewMoneyline
    \/ Compare
    \/ Equate

OddSpec == OddInit /\ [][OddNext]_vars

\* ------------------------------------------------------------ claim helpers
Returned == pc = "done"

\* the argument is neither NaN nor an infinity
FiniteValue(v) == v.kind = "fin"

\* the argument is finite and small enough for exact error arithmetic
SmallFinite(v) ==
    /\ v.kind = "fin" /\ v.hi = 0 /\ v.whole <= MaxWhole + 1
    /\ v.den <= RATIONAL_APPROXIMATION_MAX_DENOMINATOR

\* the signed numerator of a small finite value over its denominator v.den
SignedNumerator(v) == (IF v.neg THEN -1 ELSE 1) * (v.whole * v.den + v.num)

\* |v - fraction| as a numerator over v.den * fraction[2]   (fraction[2] > 0)
ErrorNumerator(v, fraction) == Abs(SignedNumerator(v) * fraction[2] - fraction[1] * v.den)

\* |v - a| < |v - b| for fractions a, b with positive denominators
StrictlyCloser(v, a, b) == ErrorNumerator(v, a) * b[2] < ErrorNumerator(v, b) * a[2]

\* floor(v * q) for a small finite v
FloorTimes(v, q) ==
    LET x == SignedNumerator(v) * q
    IN IF x >= 0 THEN x \div v.den ELSE -((-x + v.den - 1) \div v.den)

\* the denominators a claim about "every fraction within the bound" is tried on
Denominators(d) == 1..(IF d <= RATIONAL_APPROXIMATION_MAX_DENOMINATOR
                       THEN d ELSE RATIONAL_APPROXIMATION_MAX_DENOMINATOR)

\* C1: for a finite value and max_denominator > 0 no fraction p/q with
\* 1 <= q <= max_denominator is strictly closer to value than the returned pair.
C1_ClosestRational ==
    (Returned /\ max_denominator > 0 /\ SmallFinite(value))
        => /\ result[2] >= 1
           /\ \A q \in Denominators(max_denominator) :
                \A p \in {FloorTimes(value, q), FloorTimes(value, q) + 1} :
                    ~StrictlyCloser(value, <<p, q>>, result)

\* C2: for a finite value of any magnitude and max_denominator > 0 the returned
\* denominator lies in [1, max_denominator].
C2_DenominatorInBound ==
    (Returned /\ max_denominator > 0 /\ FiniteValue(value))
        => (1 <= result[2] /\ result[2] <= max_denominator)

\* C3: for a finite value and max_denominator > 0 the returned numerator and
\* denominator are coprime, from the exact-convergence exit and from the selector.
C3_Coprime ==
    (Returned /\ max_denominator > 0 /\ FiniteValue(value))
        => Gcd(Abs(result[1]), Abs(result[2])) = 1

\* C3 witness: the selector returned a proper semiconvergent (a multiplier
\* strictly between 1 and the pending term) with numerator and denominator > 1
C3_Witness ==
    /\ Returned /\ max_denominator > 0 /\ FiniteValue(value)
    /\ 1 < n /\ n < continued_fraction_term
    /\ result = Signed(sign, append_continued_fraction_term(convergent, prev_convergent, n))
    /\ Abs(result[1]) > 1 /\ result[2] > 1

\* value is the non-negative fraction p/q in lowest terms with q <= d and p in i32
ExactInBound(v, d) ==
    /\ v.kind = "fin" /\ ~v.neg /\ v.hi = 0
    /\ v.den <= d
    /\ Gcd(v.num, v.den) = 1
    /\ MulFits(v.whole, v.den) /\ AddFits(v.whole * v.den, v.num)

C5_InvalidBoundSentinel ==
    (Returned /\ max_denominator <= 0) => result = <<0, 0>>

\* C5 witness: +infinity with bound 0 returned the sentinel
C5_Witness ==
    /\ Returned /\ max_denominator = 0 /\ value = Inf(FALSE) /\ result = <<0, 0>>

\* C6 (as claimed): with max_denominator > 0 a non-finite value returns (0, 0).
C6_NonFiniteSentinel ==
    (Returned /\ max_denominator > 0 /\ ~FiniteValue(value)) => result = <<0, 0>>

\* C6 (amended): with max_denominator > 0, NaN returns (0, 0), +infinity
\* returns (MAX_INT32, 1) and -infinity returns (MIN_INT32, 1).
C6_NonFiniteOutcome ==
    (Returned /\ max_denominator > 0 /\ ~FiniteValue(value))
        => result = (IF value.kind = "nan" THEN <<0, 0>>
                     ELSE IF value.neg THEN <<MIN_INT32, 1>> ELSE <<MAX_INT32, 1>>)

\* C6 witness: NaN with a positive bound returned the sentinel
C6_Witness ==
    /\ Returned /\ max_denominator > 0 /\ value = NaN /\ result = <<0, 0>>

\* value > MAX_INT32 - 0.5
AboveI32(v) ==
    /\ v.kind # "nan" /\ ~v.neg
    /\ \/ v.kind = "inf" \/ v.hi > 0 \/ v.whole >= MAX_INT32
       \/ (v.whole = MAX_INT32 - 1 /\ 2 * v.num > v.den)

\* value < MIN_INT32 + 0.5
BelowI32(v) ==
    /\ v.kind # "nan" /\ v.neg
    /\ \/ v.kind = "inf" \/ v.hi > 0
       \/ (v.whole = MAX_INT32 /\ 2 * v.num > v.den)

\* C7: with max_denominator > 0 every value above MAX_INT32 - 0.5 returns
\* (MAX_INT32, 1) and every value below MIN_INT32 + 0.5 returns (MIN_INT32, 1),
\* so neither reaches the expansion loop.
C7_RangeSaturation ==
    /\ (Returned /\ max_denominator > 0 /\ AboveI32(value)) => result = <<MAX_INT32, 1>>
    /\ (Returned /\ max_denominator > 0 /\ BelowI32(value)) => result = <<MIN_INT32, 1>>
    /\ (max_denominator > 0 /\ (AboveI32(value) \/ BelowI32(value))) => pc \in {"start", "done"}

\* C8: for a finite value and 0 < d1 <= d2 the error of the result for d2 is
\* at most the error of the result for d1.
C8_MonotonicAccuracy ==
    (Returned /\ max_denominator > 0 /\ SmallFinite(value))
        => \A d1 \in { d \in Bounds : 0 < d /\ d <= max_denominator } :
              LET r1 == rational_approximation(value, d1).result
              IN (r1[2] > 0 /\ result[2] > 0) => ~StrictlyCloser(value, r1, result)

\* C9 (as claimed): when the result for v is not (0, 0), the result for -v has
\* the same denominator and the negated numerator, saturated results included
\* (the negation of MIN_INT32 is not an i32, so no result can be it).
C9_SignSymmetry ==
    (Returned /\ max_denominator > 0 /\ result # <<0, 0>>)
        => /\ result[1] # MIN_INT32
           /\ rational_approximation(F64Neg(value), max_denominator).result
                 = <<-result[1], result[2]>>

\* C9 (amended): the same for every finite v; the results for +infinity and
\* -infinity are (MAX_INT32, 1) and (MIN_INT32, 1), which are not negations.
C9_SignSymmetryFinite ==
    (Returned /\ max_denominator > 0 /\ FiniteValue(value))
        => rational_approximation(F64Neg(value), max_denominator).result
              = <<-result[1], result[2]>>

\* C9 witness: a negative value returned a negative numerator over a
\* denominator above 1
C9_Witness ==
    /\ Returned /\ max_denominator > 0 /\ FiniteValue(value) /\ value.neg
    /\ result[1] < 0 /\ result[2] > 1

\* C10: for a finite value and d > 0, feeding the decimal reconstruction p/q of
\* the result (p, q) back with the same bound returns (p, q) again.
C10_Idempotence ==
    (Returned /\ max_denominator > 0 /\ FiniteValue(value))
        => rational_approximation(fraction_to_double(result), max_denominator).result
              = result

\* the number of terms the loop has folded into the convergent
FoldedTerms == term - 2

\* C11: the call terminates for every input: the term index starts at 2 and
\* never passes 47, at most 45 terms are folded, and the call returns.
C11_Terminates ==
    /\ [](2 <= term /\ term <= DEFAULT_MAX_TERMS /\ FoldedTerms <= 45)
    /\ <>(pc = "done")

\* C11 witness: a call that folded more than 40 terms has returned
C11_Witness ==
    /\ Returned /\ FoldedTerms > 40
    /\ result[2] > 1000000000

\* the odds-layer call that has been made
Called(op) == odd.op = op

\* C12: a Decimal-to-Fractional conversion whose approximation has a numerator
\* <= 0 or a denominator <= 0 returns an error value: no Fractional, no panic.
C12_RejectedApproximationIsErr ==
    ((Called("Fractional::try_from(Decimal)") \/ Called("lib::Fractional::try_from(Decimal)"))
       /\ (odd.approximation[1] <= 0 \/ odd.approximation[2] <= 0))
        => odd.out.tag = "Err"

\* C13: Fractional::new with a zero numerator or a zero denominator, both
\* zero included, returns Err and never panics.
C13_ZeroPartIsErr ==
    ((Called("Fractional::new") \/ Called("lib::Fractional::new"))
       /\ (odd.arg[1] = 0 \/ odd.arg[2] = 0))
        => odd.out.tag = "Err"

\* the operations that return a Fractional
ReturnsFractional ==
    odd.op \in {"Fractional::new", "lib::Fractional::new",
                "Fractional::try_from(Decimal)", "lib::Fractional::try_from(Decimal)",
                "Fractional::try_from(Moneyline)",
                "lib::Fractional::try_from(Moneyline)"}

\* C14: every Fractional a constructor or conversion returns is in lowest
\* terms with non-zero parts, and Fractional::new(n, d) keeps the value:
\* numerator * d = n * denominator.
C14_LowestTerms ==
    (ReturnsFractional /\ odd.out.tag = "Ok")
        => /\ odd.out.val[1] # 0 /\ odd.out.val[2] # 0
           /\ Gcd(odd.out.val[1], odd.out.val[2]) = 1
           /\ (Called("Fractional::new") \/ Called("lib::Fractional::new"))
                 => odd.out.val[1] * odd.arg[2] = odd.arg[1] * odd.out.val[2]

\* C14 witness: Fractional::new(124, 56) returned 31/14
C14_Witness ==
    /\ Called("Fractional::new") /\ odd.arg = <<124, 56>>
    /\ odd.out.tag = "Ok" /\ odd.out.val = <<31, 14>>

\* C15: Moneyline::new returns Err exactly when |value| < 100, and Ok with the
\* value unchanged for every other i64, the most negative included; no panic.
C15_MoneylineNew ==
    Called("Moneyline::new")
        => IF odd.arg.kind = "num" /\ odd.arg.hi = 0 /\ odd.arg.lo < 100
           THEN odd.out.tag = "Err"
           ELSE odd.out.tag = "Ok" /\ odd.out.val = odd.arg

\* C16: a.cmp(b) on two valid odds of any representations is Less, Equal or
\* Greater exactly as payout(a) is less than, equal to or greater than
\* payout(b) for the same positive stake.
C16_OrderIsPayoutOrder ==
    Called("AnyOdd::cmp")
        => LET pa == Payout(odd.arg[1])
               pb == Payout(odd.arg[2])
           IN odd.out.val = IntCmp(pa[1] * pb[2], pb[1] * pa[2])

\* C17: no i32 arithmetic of rational_approximation overflows: the folds and
\* the semiconvergent never leave the i32 range, the operands of the two
\* subtractions that compute n and its upper bound are non-negative and within
\* their minuends, and the signed result is within the range.
C17_NoOverflow ==
    /\ pc # "overflow"
    /\ pc \in {"loop", "select"}
          => /\ 0 <= prev_convergent[2] /\ prev_convergent[2] <= max_denominator
             /\ 0 <= prev_convergent[1] /\ prev_convergent[1] <= MAX_INT32
             /\ 0 <= convergent[1] /\ convergent[1] <= MAX_INT32
             /\ 1 <= convergent[2] /\ convergent[2] <= max_denominator
             /\ 0 <= n /\ n <= MAX_INT32
    /\ pc = "done" => InI32(result[1]) /\ InI32(result[2])

\* C17 witness: a call whose multiplier was clamped by the numerator's upper
\* bound, below what the denominator allows, has returned
C17_Witness ==
    /\ Returned /\ FiniteValue(value) /\ max_denominator > 0
    /\ convergent[1] > 0
    /\ TruncDiv(MAX_INT32 - prev_convergent[1], convergent[1])
          < TruncDiv(max_denominator - prev_convergent[2], convergent[2])
    /\ 1 <= n /\ n <= TruncDiv(MAX_INT32 - prev_convergent[1], convergent[1])
    /\ result[1] = MAX_INT32

\* C18: when the loop exits to the selector with multiplier n and pending
\* term a, the call returns the convergent if n < a/2, the semiconvergent built
\* with min(n, a) if n > a/2, and in the tie n = a/2 the semiconvergent only if
\* |value - semiconvergent| < |value - convergent|, else the convergent.
C18_SelectorRule ==
    [][(pc = "select" /\ SmallFinite(value))
          => LET a == continued_fraction_term
                 lower_bound == a \div 2
                 m == IF n > a THEN a ELSE n
                 semi == <<m * convergent[1] + prev_convergent[1],
                           m * convergent[2] + prev_convergent[2]>>
                 expected == IF n < lower_bound THEN convergent
                             ELSE IF n > lower_bound THEN semi
                             ELSE IF semi[2] > 0
                                     /\ StrictlyCloser(F64Abs(value), semi, convergent)
                                  THEN semi
                                  ELSE convergent
             IN pc' = "done" /\ result' = <<sign * expected[1], expected[2]>>]_vars

\* |a[1] * b[2] - b[1] * a[2]| = 1 for pairs with non-negative denominators,
\* decided by Euclid's reduction of the denominators, which keeps the
\* determinant up to its sign and never forms the two large products:
\* det(a, b) = -det(b, a - t * b).  A multiple beyond i32 counts as a failure.
RECURSIVE UnitDeterminant(_, _)
UnitDeterminant(a, b) ==
    IF b[2] = 0 THEN Abs(b[1]) = 1 /\ Abs(a[2]) = 1
    ELSE LET t == a[2] \div b[2]
         IN /\ MulFits(t, b[1])
            /\ UnitDeterminant(b, <<a[1] - t * b[1], a[2] - t * b[2]>>)

\* C19: at every iteration of the loop, and at the selector after it, the
\* tracked convergents current = p/q and prev = p'/q' satisfy
\* |p*q' - p'*q| = 1, and the current convergent is in lowest terms with q >= 1.
C19_ConsecutiveConvergents ==
    pc \in {"loop", "select"}
        => /\ prev_convergent[2] >= 0 /\ convergent[2] >= 1
           /\ UnitDeterminant(convergent, prev_convergent)
           /\ Gcd(convergent[1], convergent[2]) = 1

\* C19 witness: the loop is running after several folds, on a convergent whose
\* products with its predecessor are beyond 32 bits
C19_Witness ==
    /\ pc = "loop" /\ term >= 20
    /\ convergent[2] > 100000 /\ prev_convergent[2] > 100000

\* the result's pair of magnitudes is the result computed for |value|
\* (MIN_INT32 is the magnitude of no i32, so a numerator of MIN_INT32 fails)
MagnitudeOfAbs ==
    /\ result[1] # MIN_INT32
    /\ <<Abs(result[1]), result[2]>>
          = rational_approximation(F64Abs(value), max_denominator).result

\* C20 (as claimed): for every input the returned denominator is non-negative,
\* the numerator is <= 0 when value < 0 and >= 0 when value >= 0, and
\* (|numerator|, denominator) is the pair computed for |value|.
C20_SignOnNumerator ==
    Returned
        => /\ result[2] >= 0
           /\ (value.kind # "nan" /\ value.neg /\ ~IsZero(value)) => result[1] <= 0
           /\ (value.kind # "nan" /\ (~value.neg \/ IsZero(value))) => result[1] >= 0
           /\ MagnitudeOfAbs

\* C20 (amended): the same for every input other than -infinity, whose result
\* (MIN_INT32, 1) has the magnitude 2^31 while +infinity gives MAX_INT32.
C20_SignOnNumeratorButNegInf ==
    (Returned /\ ~(value.kind = "inf" /\ value.neg /\ max_denominator > 0))
        => /\ result[2] >= 0
           /\ (value.kind # "nan" /\ value.neg /\ ~IsZero(value)) => result[1] <= 0
           /\ (value.kind # "nan" /\ (~value.neg \/ IsZero(value))) => result[1] >= 0
           /\ MagnitudeOfAbs

\* C20 witness: a negative value folded at least one term and returned the
\* negated numerator of the pair computed for its absolute value
C20_Witness ==
    /\ Returned /\ FiniteValue(value) /\ value.neg /\ sign = -1 /\ term > 2
    /\ result[1] < 0 /\ result[2] > 2
    /\ rational_approximation(F64Abs(value), max_denominator).result
          = <<-result[1], result[2]>>

\* C21: == on AnyOdd is an equivalence across the three representations:
\* a == a; a == b exactly when b == a; and a == b with b == c gives a == c.
C21_EqIsEquivalence ==
    Called("AnyOdd::eq")
        => /\ odd.out.val.aa
           /\ odd.out.val.ab = odd.out.val.ba
           /\ (odd.out.val.ab /\ odd.out.val.bc) => odd.out.val.ac

\* the fraction f has exactly the value of the moneyline m: f = m / 100 for
\* m > 0 and f = 100 / |m| for m < 0, with |m| = m.hi * 2^32 + m.lo.  Both
\* sides times the denominators differ by m.hi * 2^32 times a part of f plus a
\* difference that fits 32 bits, so they are equal only when m.hi = 0.
ValueOfMoneyline(f, m) ==
    /\ m.hi = 0
    /\ IF ~m.neg THEN f[1] * 100 = m.lo * f[2] ELSE f[1] * m.lo = 100 * f[2]

\* C22: converting a valid Moneyline m to a Fractional returns an error or a
\* fraction of exactly the value m/100 (m > 0) or 100/|m| (m < 0); the
\* narrowing of the 64-bit amount to 32 bits never changes the value.
C22_MoneylineValueKept ==
    ((Called("Fractional::try_from(Moneyline)")
         \/ Called("lib::Fractional::try_from(Moneyline)"))
       /\ odd.out.tag # "Err")
        => odd.out.tag = "Ok" /\ ValueOfMoneyline(odd.out.val, odd.arg)

====
